---- MODULE Spec2Model ----
(***************************************************************************)
(* A model of src/meme_trend_analyzer.py: the discovery -> risk check ->   *)
(* purchase -> notification flow of main(), the two token feeds behind     *)
(* aggregate_tokens(), check_contract_rugcheck(), buy_token() and          *)
(* send_telegram_message(), together with the collaborators they talk to   *)
(* (the feeds, rugcheck, the chain node, the Telegram chat).               *)
(*                                                                         *)
(* One run of the script is one pass of main() from "search_memes" to      *)
(* "done" (or "crashed" when search_memes raises).  The script can be      *)
(* started again; the chain keeps its transactions between runs, the       *)
(* process keeps nothing.                                                  *)
(***************************************************************************)
EXTENDS Integers, Sequences, FiniteSets, TLC

VARIABLES
    run,              \* number of the running process (1 = first start of the script)
    pc,               \* position of the running process in main() / buy_token()
    resp,             \* what each feed answered to requests.get in aggregate_tokens
    gmgn,             \* aggregate_tokens: local gmgn
    pumpfun,          \* aggregate_tokens: local pumpfun
    tokens,           \* main: local tokens
    test_token,       \* main: local test_token
    rug_data,         \* main: local rug_data
    lastRisk,         \* the most recent rugcheck query: who asked (run), for what, how it ended
    contract_address, \* buy_token: parameter
    amount_in_wei,    \* buy_token: parameter (in units of 10^12 wei)
    nonce,            \* buy_token: local nonce
    tx,               \* buy_token: the built and signed transaction
    tx_hash,          \* buy_token: local tx_hash (index into txs)
    receipt,          \* buy_token: return value
    exc,              \* the exception buy_token raised
    chainCalls,       \* chain interactions made by the current buy_token call
    txs,              \* the chain node: every transaction it accepted, in order
    txCount,          \* the chain node: mined transactions of the account ('latest')
    notified          \* send_telegram_message calls of the running process

vars == <<run, pc, resp, gmgn, pumpfun, tokens, test_token, rug_data, lastRisk,
          contract_address, amount_in_wei, nonce, tx, tx_hash, receipt, exc,
          chainCalls, txs, txCount, notified>>

mainLocals == <<resp, gmgn, pumpfun, tokens, test_token, rug_data>>
buyLocals  == <<contract_address, amount_in_wei, nonce, tx, tx_hash, receipt, exc, chainCalls>>
chain      == <<txs, txCount>>

\* ------------------------------------------------------------------ bounds

\* Starts of the script.
MaxRuns == 2
\* Cards on one feed page.
MaxFeed == 1
\* Direct calls of buy_token that reach the node (SpecExec).
MaxTxs == 2

\* ------------------------------------------------------------- constants

\* to_wei(0.001, 'ether'), in units of 10^12 wei.
BuyAmount == 1000

None   == "None"
NoLink == "NoLink"

\* Unset values of the locals, in the shape of the values they later hold.
NoResponse == [kind |-> None, page |-> <<>>]
NoRugData  == [contract_address |-> None, error |-> FALSE, status |-> None]
NoRisk     == [run |-> 0, contract |-> None, ok |-> FALSE]
NoTx       == [nonce |-> 0, to |-> None, amount |-> 0]
NoReceipt  == [transactionHash |-> 0, status |-> None]

\* href values of a contract link: absent href (""), and one address in two spellings.
Hrefs == {"", "0xABC", "0xabc"}
DEADBEEF == "0xDEADBEEF"

\* A token card of a feed page: is there a name tag, and the contract link's href.
Cards == [name : BOOLEAN, link : {"0xABC", NoLink}] \cup [name : {TRUE}, link : Hrefs]
Pages == UNION {[1..n -> Cards] : n \in 0..MaxFeed}

\* What requests.get / raise_for_status can give an adapter.
Responses == [kind : {"ok"}, page : Pages]
             \cup [kind : {"transient", "permanent"}, page : {<<>>}]

\* Status texts of the rugcheck page; "N/A" is what the code puts for a missing tag.
Statuses == {"Safe", "Unsafe", "Unknown", "N/A"}

\* ---------------------------------------------------------------- helpers

\* The parsing loop of an adapter: a card with a name tag and a contract link
\* becomes a token of that source.
ParseCards(source, page) ==
    LET kept == SelectSeq(page, LAMBDA c : c.name /\ c.link # NoLink)
    IN  [i \in 1..Len(kept) |-> [source |-> source, contract |-> kept[i].link]]

\* try: ... return new_tokens / except Exception: return []
AdapterResult(source, r) ==
    IF r.kind = "ok" THEN ParseCards(source, r.page) ELSE <<>>

\* tokens[0].get("contract") or "0xDEADBEEF"
ContractOf(t) == IF t.contract = "" THEN DEADBEEF ELSE t.contract

\* Mutant of GateProceeds: the error branch is not tested before the status.
GateIgnoresError(rd) == rd.status # "N/A"

\* if "error" not in rug_data: ... if rug_data["status"] != "N/A":
GateProceeds(rd) == ~rd.error /\ rd.status # "N/A"

\* send_telegram_message(message): the call is logged; without a bot nothing is
\* sent, and a failing send is swallowed.
send_telegram_message(kind, token, txid) ==
    \E telegram_bot \in BOOLEAN, sent \in BOOLEAN :
        notified' = Append(notified,
            [kind |-> kind, token |-> token, tx |-> txid,
             delivered |-> telegram_bot /\ sent])

BuyPcs == {"buy_init", "buy_nonce", "buy_block", "buy_build", "buy_send", "buy_wait"}

NoBuyLocals ==
    /\ contract_address = None /\ amount_in_wei = 0 /\ nonce = 0 /\ tx = NoTx
    /\ tx_hash = 0 /\ receipt = NoReceipt /\ exc = None /\ chainCalls = 0

Init ==
    /\ run = 1
    /\ pc = "search_memes"
    /\ resp = [GMGN |-> NoResponse, Pumpfun |-> NoResponse]
    /\ gmgn = <<>> /\ pumpfun = <<>> /\ tokens = <<>>
    /\ test_token = None
    /\ rug_data = NoRugData
    /\ lastRisk = NoRisk
    /\ NoBuyLocals
    /\ txs = <<>>
    /\ txCount = 0
    /\ notified = <<>>

\* ------------------------------------------------------------------- main

\* Step 1: search_memes raises when the Twitter search fails; nothing catches it.
search_memes ==
    /\ pc = "search_memes"
    /\ \E raised \in BOOLEAN : pc' = IF raised THEN "crashed" ELSE "aggregate_gmgn"
    /\ UNCHANGED <<run, mainLocals, lastRisk, buyLocals, chain, notified>>

\* Mutant of get_new_tokens_from_gmgn: the except clause is missing, so a failed
\* fetch leaves aggregate_tokens and main with the exception.
get_new_tokens_from_gmgn_unhandled ==
    /\ pc = "aggregate_gmgn"
    /\ \E r \in Responses :
        /\ resp' = [resp EXCEPT !.GMGN = r]
        /\ IF r.kind = "ok"
           THEN gmgn' = ParseCards("GMGN", r.page) /\ pc' = "aggregate_pumpfun"
           ELSE gmgn' = <<>> /\ pc' = "crashed"
    /\ UNCHANGED <<run, pumpfun, tokens, test_token, rug_data, lastRisk, buyLocals, chain, notified>>

get_new_tokens_from_gmgn ==
    /\ pc = "aggregate_gmgn"
    /\ \E r \in Responses :
        /\ resp' = [resp EXCEPT !.GMGN = r]
        /\ gmgn' = AdapterResult("GMGN", r)
    /\ pc' = "aggregate_pumpfun"
    /\ UNCHANGED <<run, pumpfun, tokens, test_token, rug_data, lastRisk, buyLocals, chain, notified>>

get_new_tokens_from_pumpfun ==
    /\ pc = "aggregate_pumpfun"
    /\ \E r \in Responses :
        /\ resp' = [resp EXCEPT !.Pumpfun = r]
        /\ pumpfun' = AdapterResult("Pumpfun", r)
    /\ pc' = "aggregate_return"
    /\ UNCHANGED <<run, gmgn, tokens, test_token, rug_data, lastRisk, buyLocals, chain, notified>>

\* return gmgn + pumpfun, assigned to main's tokens
aggregate_tokens ==
    /\ pc = "aggregate_return"
    /\ tokens' = gmgn \o pumpfun
    /\ pc' = "tweetscout"
    /\ UNCHANGED <<run, resp, gmgn, pumpfun, test_token, rug_data, lastRisk, buyLocals, chain, notified>>

\* Step 3 never raises and changes nothing main uses later; the adapters' locals
\* are gone by now.
search_memecoin_account_on_tweetscout ==
    /\ pc = "tweetscout"
    /\ resp' = [GMGN |-> NoResponse, Pumpfun |-> NoResponse]
    /\ gmgn' = <<>> /\ pumpfun' = <<>>
    /\ pc' = "pick"
    /\ UNCHANGED <<run, tokens, test_token, rug_data, lastRisk, buyLocals, chain, notified>>

\* if tokens: test_token = tokens[0]... else: "No tokens available", script completed
main_pick ==
    /\ pc = "pick"
    /\ IF tokens # <<>>
       THEN /\ test_token' = ContractOf(tokens[1])
            /\ pc' = "rugcheck"
       ELSE /\ pc' = "done"
            /\ UNCHANGED test_token
    /\ UNCHANGED <<run, resp, gmgn, pumpfun, tokens, rug_data, lastRisk, buyLocals, chain, notified>>

check_contract_rugcheck ==
    /\ pc = "rugcheck"
    /\ \E rd \in [error : {FALSE}, status : Statuses] \cup [error : {TRUE}, status : {None}] :
        /\ rug_data' = [contract_address |-> test_token, error |-> rd.error, status |-> rd.status]
        /\ lastRisk' = [run |-> run, contract |-> test_token, ok |-> ~rd.error]
    /\ pc' = "gate"
    /\ UNCHANGED <<run, resp, gmgn, pumpfun, tokens, test_token, buyLocals, chain, notified>>

\* The two ifs of step 4: buy_token(test_token, to_wei(0.001, 'ether')) or skip.
main_gate ==
    /\ pc = "gate"
    /\ IF GateProceeds(rug_data)
       THEN /\ contract_address' = test_token
            /\ amount_in_wei' = BuyAmount
            /\ pc' = "buy_init"
       ELSE /\ pc' = "done"
            /\ UNCHANGED <<contract_address, amount_in_wei>>
    /\ UNCHANGED <<run, mainLocals, lastRisk, nonce, tx, tx_hash, receipt, exc, chainCalls, chain, notified>>

\* ---------------------------------------------------------------- buy_token

\* An exception leaves buy_token; main's except clause is next.
Raise(e) ==
    /\ exc' = e
    /\ pc' = "buy_raised"

\* if not web3: raise ValueError; privateKeyToAccount(PRIVATE_KEY) and the router
\* object are built locally and raise on a bad key or ABI.
buy_token_init ==
    /\ pc = "buy_init"
    /\ \E web3 \in BOOLEAN, keyOk \in BOOLEAN :
        IF ~web3 THEN Raise("ValueError")
        ELSE IF ~keyOk THEN Raise("KeyError")
        ELSE pc' = "buy_nonce" /\ UNCHANGED exc
    /\ UNCHANGED <<run, mainLocals, lastRisk, contract_address, amount_in_wei, nonce, tx,
                   tx_hash, receipt, chainCalls, chain, notified>>

\* nonce = web3.eth.get_transaction_count(account.address): the default block is
\* 'latest', so the node counts the account's mined transactions only.
buy_token_get_transaction_count ==
    /\ pc = "buy_nonce"
    /\ chainCalls' = chainCalls + 1
    /\ \E ok \in BOOLEAN :
        IF ok THEN /\ nonce' = txCount
                   /\ pc' = "buy_block"
                   /\ UNCHANGED exc
        ELSE /\ Raise("NetworkError")
             /\ UNCHANGED nonce
    /\ UNCHANGED <<run, mainLocals, lastRisk, contract_address, amount_in_wei, tx,
                   tx_hash, receipt, chain, notified>>

\* deadline = web3.eth.get_block('latest')['timestamp'] + 300
buy_token_get_block ==
    /\ pc = "buy_block"
    /\ chainCalls' = chainCalls + 1
    /\ \E ok \in BOOLEAN :
        IF ok THEN pc' = "buy_build" /\ UNCHANGED exc
        ELSE Raise("NetworkError")
    /\ UNCHANGED <<run, mainLocals, lastRisk, contract_address, amount_in_wei, nonce, tx,
                   tx_hash, receipt, chain, notified>>

\* buildTransaction({... 'nonce': nonce ...}) and account.sign_transaction(tx)
buy_token_build_transaction ==
    /\ pc = "buy_build"
    /\ \E ok \in BOOLEAN :
        IF ok THEN /\ tx' = [nonce |-> nonce, to |-> contract_address, amount |-> amount_in_wei]
                   /\ pc' = "buy_send"
                   /\ UNCHANGED exc
        ELSE /\ Raise("ValidationError")
             /\ UNCHANGED tx
    /\ UNCHANGED <<run, mainLocals, lastRisk, contract_address, amount_in_wei, nonce,
                   tx_hash, receipt, chainCalls, chain, notified>>

\* tx_hash = web3.eth.send_raw_transaction(signed_tx.rawTransaction): the node
\* takes the transaction into its pool, or refuses it.
buy_token_send_raw_transaction ==
    /\ pc = "buy_send"
    /\ chainCalls' = chainCalls + 1
    /\ \E accepted \in BOOLEAN :
        IF accepted
        THEN /\ txs' = Append(txs, [nonce |-> tx.nonce, to |-> tx.to, amount |-> tx.amount,
                                    run |-> run, state |-> "pending"])
             /\ tx_hash' = Len(txs) + 1
             /\ pc' = "buy_wait"
             /\ UNCHANGED exc
        ELSE /\ Raise("NetworkError")
             /\ UNCHANGED <<txs, tx_hash>>
    /\ UNCHANGED <<run, mainLocals, lastRisk, contract_address, amount_in_wei, nonce, tx,
                   receipt, txCount, notified>>

\* receipt = web3.eth.wait_for_transaction_receipt(tx_hash); return receipt.
\* The receipt of a mined transaction is returned whatever its status.
buy_token_receipt ==
    /\ pc = "buy_wait"
    /\ txs[tx_hash].state \in {"confirmed", "reverted"}
    /\ chainCalls' = chainCalls + 1
    /\ receipt' = [transactionHash |-> tx_hash, status |-> txs[tx_hash].state]
    /\ pc' = "buy_returned"
    /\ UNCHANGED <<run, mainLocals, lastRisk, contract_address, amount_in_wei, nonce, tx,
                   tx_hash, exc, chain, notified>>

\* wait_for_transaction_receipt gives up after its timeout: TimeExhausted.
buy_token_wait_timeout ==
    /\ pc = "buy_wait"
    /\ txs[tx_hash].state \in {"pending", "dropped"}
    /\ chainCalls' = chainCalls + 1
    /\ Raise("TimeExhausted")
    /\ UNCHANGED <<run, mainLocals, lastRisk, contract_address, amount_in_wei, nonce, tx,
                   tx_hash, receipt, chain, notified>>

\* The chain mines the pending transaction that carries the account's next nonce;
\* it confirms or reverts, and every other pending transaction with that nonce
\* is dropped from the pool.
chain_mine ==
    /\ \E i \in DOMAIN txs, outcome \in {"confirmed", "reverted"} :
        /\ txs[i].state = "pending"
        /\ txs[i].nonce = txCount
        /\ txs' = [j \in DOMAIN txs |->
                     IF j = i THEN [txs[j] EXCEPT !.state = outcome]
                     ELSE IF txs[j].state = "pending" /\ txs[j].nonce = txCount
                          THEN [txs[j] EXCEPT !.state = "dropped"]
                          ELSE txs[j]]
        /\ txCount' = txCount + 1
    /\ UNCHANGED <<run, pc, mainLocals, lastRisk, buyLocals, notified>>

\* ------------------------------------------------- main, after buy_token

\* print("TX Receipt: ", receipt); send_telegram_message("Purchased token ...")
main_purchased ==
    /\ pc = "buy_returned"
    /\ send_telegram_message("Purchased", test_token, receipt.transactionHash)
    /\ pc' = "done"
    /\ UNCHANGED <<run, mainLocals, lastRisk, buyLocals, chain>>

\* Mutant of main_buy_error: after notifying the failure, main tries the
\* purchase again.
main_buy_error_retry ==
    /\ pc = "buy_raised"
    /\ send_telegram_message("BuyError", test_token, tx_hash)
    /\ pc' = "buy_init"
    /\ UNCHANGED <<run, mainLocals, lastRisk, buyLocals, chain>>

\* except Exception as e: send_telegram_message("Buy error for ...")
main_buy_error ==
    /\ pc = "buy_raised"
    /\ send_telegram_message("BuyError", test_token, tx_hash)
    /\ pc' = "done"
    /\ UNCHANGED <<run, mainLocals, lastRisk, buyLocals, chain>>

\* The script is started again: a new process, with nothing of the old one.
restart ==
    /\ pc \in {"done", "crashed"}
    /\ run < MaxRuns
    /\ run' = run + 1
    /\ pc' = "search_memes"
    /\ resp' = [GMGN |-> NoResponse, Pumpfun |-> NoResponse]
    /\ gmgn' = <<>> /\ pumpfun' = <<>> /\ tokens' = <<>>
    /\ test_token' = None
    /\ rug_data' = NoRugData
    /\ contract_address' = None /\ amount_in_wei' = 0 /\ nonce' = 0 /\ tx' = NoTx
    /\ tx_hash' = 0 /\ receipt' = NoReceipt /\ exc' = None /\ chainCalls' = 0
    /\ notified' = <<>>
    /\ UNCHANGED <<lastRisk, chain>>

Next ==
    \/ search_memes
    \/ get_new_tokens_from_gmgn
    \/ get_new_tokens_from_pumpfun
    \/ aggregate_tokens
    \/ search_memecoin_account_on_tweetscout
    \/ main_pick
    \/ check_contract_rugcheck
    \/ main_gate
    \/ buy_token_init
    \/ buy_token_get_transaction_count
    \/ buy_token_get_block
    \/ buy_token_build_transaction
    \/ buy_token_send_raw_transaction
    \/ buy_token_receipt
    \/ buy_token_wait_timeout
    \/ chain_mine
    \/ main_purchased
    \/ main_buy_error
    \/ restart

Spec == Init /\ [][Next]_vars

\* ------------------------------------------------ buy_token called directly

\* buy_token(contract_address, amount_in_wei) is a function of the module: a
\* caller other than main passes it any address and any amount.
Amounts == {0, BuyAmount}

InitExec ==
    /\ run = 1
    /\ pc = "idle"
    /\ resp = [GMGN |-> NoResponse, Pumpfun |-> NoResponse]
    /\ gmgn = <<>> /\ pumpfun = <<>> /\ tokens = <<>>
    /\ test_token = None
    /\ rug_data = NoRugData
    /\ lastRisk = NoRisk
    /\ NoBuyLocals
    /\ txs = <<>>
    /\ txCount = 0
    /\ notified = <<>>

call_buy_token ==
    /\ pc = "idle"
    /\ Len(txs) < MaxTxs
    /\ \E c \in {"0xABC", DEADBEEF}, a \in Amounts :
        /\ contract_address' = c
        /\ amount_in_wei' = a
    /\ nonce' = 0 /\ tx' = NoTx /\ tx_hash' = 0 /\ receipt' = NoReceipt
    /\ exc' = None /\ chainCalls' = 0
    /\ pc' = "buy_init"
    /\ UNCHANGED <<run, mainLocals, lastRisk, chain, notified>>

\* The caller has the receipt or the exception.
buy_token_left ==
    /\ pc \in {"buy_returned", "buy_raised"}
    /\ pc' = "idle"
    /\ UNCHANGED <<run, mainLocals, lastRisk, buyLocals, chain, notified>>

NextExec ==
    \/ call_buy_token
    \/ buy_token_init
    \/ buy_token_get_transaction_count
    \/ buy_token_get_block
    \/ buy_token_build_transaction
    \/ buy_token_send_raw_transaction
    \/ buy_token_receipt
    \/ buy_token_wait_timeout
    \/ chain_mine
    \/ buy_token_left

SpecExec == InitExec /\ [][NextExec]_vars

\* ------------------------------------------------------------------ claims

InBuyToken == pc \in BuyPcs \cup {"buy_returned", "buy_raised"}

\* Addresses are compared without regard to case.
Lower(a) == IF a = "0xABC" THEN "0xabc" ELSE a

\* The default gate policy of the specification: require_status = {Safe}.
RequireStatus == {"Safe"}

\* C1: whenever buy_token has been called for a candidate, the risk assessment
\* of that candidate has no error and a status in the acceptable set {Safe};
\* for every other assessment the gate does not proceed.
C1_GateFailsClosed ==
    InBuyToken => (~rug_data.error /\ rug_data.status \in RequireStatus)

\* The sources a returned candidate records.
SourcesOf(t) == {t.source}

\* C2: aggregate_tokens returns one candidate per contract address (compared
\* case-insensitively; a candidate's address is non-empty), and that candidate
\* records every source that listed it.
C2_OneCandidatePerAddress ==
    pc = "tweetscout" =>
        /\ \A i, j \in DOMAIN tokens :
              (tokens[i].contract # "" /\ Lower(tokens[i].contract) = Lower(tokens[j].contract))
                  => i = j
        /\ \A t \in {gmgn[k] : k \in DOMAIN gmgn} \cup {pumpfun[k] : k \in DOMAIN pumpfun} :
              \E i \in DOMAIN tokens :
                  /\ Lower(tokens[i].contract) = Lower(t.contract)
                  /\ t.source \in SourcesOf(tokens[i])

\* The transactions the running process has submitted.
ThisRunTxs == {i \in DOMAIN txs : txs[i].run = run}

\* C3: a run submits at most one transaction; before send_raw_transaction there
\* is none, after it exactly the one buy_token waits for, and after a failure or
\* a timeout (main's except clause and beyond) there is still at most one.
C3_AtMostOneSubmission ==
    /\ Cardinality(ThisRunTxs) <= 1
    /\ pc \in {"buy_init", "buy_nonce", "buy_block", "buy_build", "buy_send"} => ThisRunTxs = {}
    /\ pc \in {"buy_wait", "buy_returned"} => ThisRunTxs = {tx_hash}

\* C3 witness: the wait timed out, main notified the failure and finished, and
\* the run's single transaction is all that was submitted.
C3_Witness ==
    /\ pc = "done" /\ exc = "TimeExhausted"
    /\ Cardinality(ThisRunTxs) = 1

\* C4: the nonce a buy_token call acquires is not the nonce of a transaction to
\* the same candidate that an earlier call submitted and that is still pending.
C4_NonceNotReused ==
    pc \in {"buy_block", "buy_build", "buy_send"} =>
        \A i \in DOMAIN txs :
            (txs[i].state = "pending" /\ txs[i].to = contract_address)
                => txs[i].nonce # nonce

\* C5: when the run is over, the candidate it processed has exactly one
\* send_telegram_message call, whatever its outcome.
C5_OneNotificationPerCandidate ==
    (pc = "done" /\ test_token # None) =>
        Cardinality({k \in DOMAIN notified : notified[k].token = test_token}) = 1

\* C6: a buy_token call with amount 0 makes no chain call, builds no
\* transaction and does not return a receipt.
C6_ZeroAmountRejected ==
    (InBuyToken /\ amount_in_wei = 0) =>
        /\ chainCalls = 0
        /\ tx = NoTx
        /\ pc # "buy_returned"

\* A candidate has an outcome (a purchase outcome or Skipped) only when the run
\* has put it through the risk query, from which every outcome follows.
HasOutcome(t) ==
    /\ lastRisk.run = run
    /\ Lower(lastRisk.contract) = Lower(ContractOf(t))

\* C7: the run is done only after every candidate that aggregation returned,
\* not only the first, has produced its outcome.
C7_DoneAfterEveryCandidate ==
    pc = "done" => \A i \in DOMAIN tokens : HasOutcome(tokens[i])

\* The candidates a page lists, card by card.
RECURSIVE CandidatesOf(_, _)
CandidatesOf(source, page) ==
    IF page = <<>> THEN <<>>
    ELSE LET c == Head(page)
         IN  (IF c.name /\ c.link # NoLink
              THEN <<[source |-> source, contract |-> c.link]>>
              ELSE <<>>) \o CandidatesOf(source, Tail(page))

\* What an adapter contributes: its candidates when its fetch succeeded, nothing
\* when it failed.
Contribution(source) ==
    IF resp[source].kind = "ok" THEN CandidatesOf(source, resp[source].page) ELSE <<>>

\* C8: aggregation never aborts the run, invokes both adapters whatever the
\* first one did, and returns the candidates of the adapters that succeeded.
C8_BestEffortUnion ==
    /\ pc = "crashed" => (resp.GMGN = NoResponse /\ resp.Pumpfun = NoResponse)
    /\ pc \in {"aggregate_pumpfun", "aggregate_return", "tweetscout"} => resp.GMGN # NoResponse
    /\ pc \in {"aggregate_return", "tweetscout"} => resp.Pumpfun # NoResponse
    /\ pc = "tweetscout" => tokens = Contribution("GMGN") \o Contribution("Pumpfun")

\* C8 witness: GMGN failed, Pumpfun was still fetched, and its candidate is
\* what aggregation returned.
C8_Witness ==
    /\ pc = "tweetscout"
    /\ resp.GMGN.kind \in {"transient", "permanent"}
    /\ resp.Pumpfun.kind = "ok"
    /\ Len(tokens) = 1 /\ tokens[1].source = "Pumpfun"

\* C9: whenever buy_token runs, the most recent risk query was made by this
\* run, for the address being bought, and returned without error.
C9_FreshRiskQuery ==
    InBuyToken =>
        /\ lastRisk.run = run
        /\ lastRisk.contract = contract_address
        /\ lastRisk.ok

\* C9 witness: a second run is inside buy_token, submitting, after a first run
\* that also queried rugcheck.
C9_Witness ==
    /\ run = 2 /\ pc = "buy_wait"
    /\ Len(txs) = 2

\* C10: a "Purchased token" notification is only sent for a confirmed
\* transaction, and buy_token returns normally only for a confirmed one.
C10_SuccessOnlyWhenConfirmed ==
    /\ pc = "buy_returned" => receipt.status = "confirmed"
    /\ \A k \in DOMAIN notified :
          notified[k].kind = "Purchased" => txs[notified[k].tx].state = "confirmed"

====
